---- MODULE Spec2Model ----
(***************************************************************************)
(* Model of report.py: generate_report and build_error_rows_html, with the *)
(* files they read and write.                                              *)
(*                                                                         *)
(* Text (the template, the arguments, the generated HTML) is a sequence of *)
(* symbols.  A placeholder such as {{TITLE}} is the three symbols          *)
(* "{{", "TITLE", "}}", so that str.replace is a search for a subsequence  *)
(* and a replacement can build or destroy a placeholder.                   *)
(* A file of result_images_dir is named by a pair: <<"error_origin", i>>   *)
(* is error_origin_{i}.png, <<"result", 1>> is result_1.png.               *)
(* The files at the paths a call is given (result_1_path, result_2_path,   *)
(* the paths of error_pairs, template_path) belong to the environment: the *)
(* model draws each when the code first looks at it and records it.        *)
(***************************************************************************)
EXTENDS Integers, Sequences, FiniteSets, TLC

\* Largest number of error pairs passed to one call.
MaxPairs == 2
\* Largest number of calls (generate_report or build_error_rows_html) in a run.
MaxCalls == 2

VARIABLES
    pc,                \* position in the running call, "idle" between calls
    calls,             \* number of calls started
    call,              \* the arguments of the running call
    result_images_dir, \* the directory all calls of the run are given
    dir_exists,        \* whether result_images_dir exists
    fs,                \* content of each file of result_images_dir, Absent if none
    output_file,       \* the file at output_html_path
    browser_opens,     \* webbrowser.open calls of the running call
    exc,               \* the exception the running call raised, "" if none
    i,                 \* loop index of build_error_rows_html
    rows,              \* rows of build_error_rows_html
    error_rows_html,   \* value returned by build_error_rows_html
    template_file,     \* the file found at template_path
    template_text,     \* text read from it
    html,              \* text after the replacements
    result_1_file,     \* the file found at result_1_path
    result_2_file,     \* the file found at result_2_path
    pair_files,        \* the files found at the paths of the pair last processed
    loader_raised,     \* the custom image_loader raised in the running call
    loaded,            \* paths load_image was applied to in the running call
    written,           \* files of result_images_dir written by the running call, in order
    html_written,      \* output_html_path was written by the running call
    template_read,     \* template_path was read by the running call
    writes_at_read,    \* number of image files written when the template was read
    fs0,               \* fs when the running call began
    output0            \* output_file when the running call began

vars == <<pc, calls, call, result_images_dir, dir_exists, fs, output_file,
          browser_opens, exc, i, rows, error_rows_html, template_file,
          template_text, html, result_1_file, result_2_file, pair_files,
          loader_raised, loaded, written, html_written, template_read,
          writes_at_read, fs0, output0>>

----------------------------------------------------------------------------
\* Python's None, and the content of a file that is not there.
None == "None"
Absent == "absent"

\* A file at a source path: missing, present but not an image, or an image.
MissingFile == [exists |-> FALSE, data |-> "nothing"]
CorruptFile == [exists |-> TRUE, data |-> "garbage"]
ImageFile(d) == [exists |-> TRUE, data |-> d]
NoFile == [exists |-> FALSE, data |-> "unknown"]
FileStates(d) == {MissingFile, CorruptFile, ImageFile(d)}
\* The files of an error pair: an undecodable one goes through load_image as
\* a missing one does, so the pairs are drawn from these two.
PairFileStates(d) == {MissingFile, ImageFile(d)}

\* cv2.imread: the decoded image, None when the data is no image.
cv2_imread(f) == IF f.data = "garbage" THEN None ELSE f.data

load_image(f) == IF ~f.exists THEN None ELSE cv2_imread(f)

\* Mutant of save_image: the write is lost.
save_image_Lost(files, img, save_path) == files

\* cv2.imwrite at save_path.
save_image(files, img, save_path) == [files EXCEPT ![save_path] = img]

\* File names of result_images_dir.
OriginName(k) == <<"error_origin", k>>
ResultName(k) == <<"error_result", k>>
Result1Name == <<"result", 1>>
Result2Name == <<"result", 2>>
DirFiles == {Result1Name, Result2Name}
            \cup {OriginName(k) : k \in 0..(MaxPairs - 1)}
            \cup {ResultName(k) : k \in 0..(MaxPairs - 1)}

\* Directories a run may use: (parent, name).
Dirs == {[parent |-> "out", name |-> "result_images"],
         [parent |-> "work", name |-> "imgs"]}

----------------------------------------------------------------------------
\* Symbols of text.
Lit(s) == [tag |-> s, dir |-> "", file |-> <<"", 0>>, alt |-> <<"", 0>>]
ImgTag(prefix, file, alt) == [tag |-> "img", dir |-> prefix, file |-> file, alt |-> alt]
NL == Lit("\n")

Placeholder(name) == <<Lit("{{"), Lit(name), Lit("}}")>>
TITLE == Placeholder("TITLE")
EVALUATION == Placeholder("EVALUATION")
MESSAGE == Placeholder("MESSAGE")
ERROR_ROWS == Placeholder("ERROR_ROWS")

\* str.replace(old, new): every non-overlapping occurrence, left to right.
RECURSIVE Replace(_, _, _)
Replace(s, old, new) ==
    IF Len(s) < Len(old) THEN s
    ELSE IF SubSeq(s, 1, Len(old)) = old
         THEN new \o Replace(SubSeq(s, Len(old) + 1, Len(s)), old, new)
         ELSE <<Head(s)>> \o Replace(Tail(s), old, new)

\* "\n".join(rows)
RECURSIVE JoinRows(_)
JoinRows(rs) ==
    IF rs = <<>> THEN <<>>
    ELSE IF Len(rs) = 1 THEN rs[1]
    ELSE rs[1] \o <<NL>> \o JoinRows(Tail(rs))

\* Mutant of ImagePrefix: the directory name is taken to be result_images.
ImagePrefix_Fixed(d) == "result_images"

\* Mutant of RowHtml: the result image is put before the origin image.
RowHtml_Swapped(prefix, k) ==
    << Lit("<tr>"), NL,
       ImgTag(prefix, <<"error_result", k>>, <<"Error_Result", k>>), NL,
       ImgTag(prefix, <<"error_origin", k>>, <<"Error_Origin", k>>), NL,
       Lit("</tr>") >>

\* The row appended for pair k.
ImagePrefix(d) == d.name
RowHtml(prefix, k) ==
    << Lit("<tr>"), NL,
       ImgTag(prefix, OriginName(k), <<"Error_Origin", k>>), NL,
       ImgTag(prefix, ResultName(k), <<"Error_Result", k>>), NL,
       Lit("</tr>") >>
NoneRow == <<Lit("<tr><td colspan=2>none</td></tr>")>>
RowsResult(rs) == IF rs # <<>> THEN JoinRows(rs) ELSE NoneRow

\* The chain of replacements of generate_report.
Substitute(text, title, evaluation, message, rowsHtml) ==
    Replace(Replace(Replace(Replace(text, TITLE, title),
                            EVALUATION, evaluation),
                    MESSAGE, message),
            ERROR_ROWS, rowsHtml)

----------------------------------------------------------------------------
\* Inputs.

\* Templates found at template_path.
TemplateFull ==
    <<Lit("<h1>")>> \o TITLE \o <<Lit("</h1>")>> \o EVALUATION \o MESSAGE
    \o TITLE \o <<Lit("<table>")>> \o ERROR_ROWS
    \o <<Lit("{{"), Lit("OTHER"), Lit("}}")>>
TemplateFiles ==
    {[exists |-> FALSE, text |-> <<>>],
     [exists |-> TRUE, text |-> TemplateFull]}
NoTemplate == [exists |-> FALSE, text |-> <<>>]

\* title, evaluation and message of a call.
TextInputs ==
    {[title |-> <<Lit("Report")>>, evaluation |-> <<Lit("0.75")>>,
      message |-> <<Lit("5 errors")>>],
     [title |-> MESSAGE, evaluation |-> <<Lit("0.75")>>,
      message |-> TITLE \o <<Lit("m")>>]}

NoCall ==
    [kind |-> "none", title |-> <<>>, evaluation |-> <<>>, message |-> <<>>,
     result_2_path |-> None, n |-> 0, image_loader |-> None,
     open_browser |-> FALSE]

\* What a custom image_loader does for a pair: returns two images or raises.
LoaderOutcomes ==
    {[raised |-> FALSE, o |-> "mem_origin", r |-> "mem_result"],
     [raised |-> TRUE, o |-> None, r |-> None]}

NoOutput == [exists |-> FALSE, text |-> <<>>]

----------------------------------------------------------------------------
Init ==
    /\ pc = "idle"
    /\ calls = 0
    /\ call = NoCall
    /\ result_images_dir \in Dirs
    /\ dir_exists = FALSE
    /\ fs = [f \in DirFiles |-> Absent]
    /\ output_file = NoOutput
    /\ browser_opens = 0
    /\ exc = ""
    /\ i = 0
    /\ rows = <<>>
    /\ error_rows_html = <<>>
    /\ template_file = NoTemplate
    /\ template_text = <<>>
    /\ html = <<>>
    /\ result_1_file = NoFile
    /\ result_2_file = NoFile
    /\ pair_files = <<NoFile, NoFile>>
    /\ loader_raised = FALSE
    /\ loaded = {}
    /\ written = <<>>
    /\ html_written = FALSE
    /\ template_read = FALSE
    /\ writes_at_read = 0
    /\ fs0 = fs
    /\ output0 = output_file

\* The variables of one call, as they are when it begins.
FreshLocals ==
    /\ browser_opens' = 0
    /\ exc' = ""
    /\ i' = 0
    /\ rows' = <<>>
    /\ error_rows_html' = <<>>
    /\ template_file' = NoTemplate
    /\ template_text' = <<>>
    /\ html' = <<>>
    /\ result_1_file' = NoFile
    /\ result_2_file' = NoFile
    /\ pair_files' = <<NoFile, NoFile>>
    /\ loader_raised' = FALSE
    /\ loaded' = {}
    /\ written' = <<>>
    /\ html_written' = FALSE
    /\ template_read' = FALSE
    /\ writes_at_read' = 0

localVars == <<browser_opens, exc, i, rows, error_rows_html, template_file,
               template_text, html, result_1_file, result_2_file, pair_files,
               loader_raised, loaded, written, html_written, template_read,
               writes_at_read>>
textVars == <<error_rows_html, template_file, template_text, html,
              html_written, template_read, writes_at_read, output_file,
              browser_opens>>
rowVars == <<i, rows, pair_files, loader_raised>>

\* test_report.py places result_2.png in the directory before the call.
PlaceResult2 ==
    /\ pc = "idle"
    /\ fs[Result2Name] # "histogram"
    /\ dir_exists' = TRUE
    /\ fs' = save_image(fs, "histogram", Result2Name)
    /\ fs0' = fs'
    /\ UNCHANGED <<pc, calls, call, result_images_dir, output_file, output0,
                   localVars>>

\* A call of generate_report begins.
CallGenerateReport ==
    /\ pc = "idle"
    /\ calls < MaxCalls
    /\ \E t \in TextInputs, r2 \in {None, "result_2_path"}, n \in 0..MaxPairs,
          ld \in {None, "custom"}, ob \in BOOLEAN :
         call' = [kind |-> "generate_report", title |-> t.title,
                  evaluation |-> t.evaluation, message |-> t.message,
                  result_2_path |-> r2, n |-> n, image_loader |-> ld,
                  open_browser |-> ob]
    /\ calls' = calls + 1
    /\ pc' = "ensure_dir"
    /\ FreshLocals
    /\ fs0' = fs
    /\ output0' = output_file
    /\ UNCHANGED <<result_images_dir, dir_exists, fs, output_file>>

\* A call of build_error_rows_html on its own begins.  It does not create the
\* directory, so it is called on one that exists.
CallBuildErrorRows ==
    /\ pc = "idle"
    /\ calls < MaxCalls
    /\ dir_exists
    /\ \E n \in 0..MaxPairs, ld \in {None, "custom"} :
         call' = [NoCall EXCEPT !.kind = "build_error_rows_html", !.n = n,
                                !.image_loader = ld]
    /\ calls' = calls + 1
    /\ pc' = "rows"
    /\ FreshLocals
    /\ fs0' = fs
    /\ output0' = output_file
    /\ UNCHANGED <<result_images_dir, dir_exists, fs, output_file>>

ensure_result_images_dir ==
    /\ pc = "ensure_dir"
    /\ dir_exists' = TRUE
    /\ pc' = "result_1"
    /\ UNCHANGED <<calls, call, result_images_dir, fs, output_file, fs0,
                   output0, localVars>>

\* A step that raises e.
Raise(e) == pc' = "raised" /\ exc' = e

\* Lines 133-136: result_1.
LoadSaveResult1 ==
    /\ pc = "result_1"
    /\ \E f \in FileStates("img_result_1") :
         /\ result_1_file' = f
         /\ loaded' = loaded \cup {<<"result_1_path", 0>>}
         /\ IF load_image(f) = None
            THEN /\ Raise("ValueError")
                 /\ UNCHANGED <<fs, written>>
            ELSE /\ fs' = save_image(fs, load_image(f), Result1Name)
                 /\ written' = Append(written, Result1Name)
                 /\ pc' = "result_2"
                 /\ UNCHANGED exc
    /\ UNCHANGED <<calls, call, result_images_dir, dir_exists, fs0, output0,
                   result_2_file, rowVars, textVars>>

\* Mutant of LoadSaveResult2: the loaded image is saved without the None check.
LoadSaveResult2_Unchecked ==
    /\ pc = "result_2"
    /\ IF call.result_2_path # None
       THEN \E f \in FileStates("img_result_2") :
              /\ result_2_file' = f
              /\ loaded' = loaded \cup {<<"result_2_path", 0>>}
              /\ fs' = save_image(fs, load_image(f), Result2Name)
              /\ written' = Append(written, Result2Name)
              /\ pc' = "rows"
              /\ UNCHANGED exc
       ELSE /\ pc' = "rows"
            /\ UNCHANGED <<result_2_file, loaded, fs, written, exc>>
    /\ UNCHANGED <<calls, call, result_images_dir, dir_exists, fs0, output0,
                   result_1_file, rowVars, textVars>>

\* Mutant of LoadSaveResult2: result_2_path = None is not skipped.
LoadSaveResult2_Always ==
    /\ pc = "result_2"
    /\ \E f \in FileStates("img_result_2") :
         /\ result_2_file' = f
         /\ loaded' = loaded \cup {<<"result_2_path", 0>>}
         /\ IF load_image(f) = None
            THEN /\ Raise("ValueError")
                 /\ UNCHANGED <<fs, written>>
            ELSE /\ fs' = save_image(fs, load_image(f), Result2Name)
                 /\ written' = Append(written, Result2Name)
                 /\ pc' = "rows"
                 /\ UNCHANGED exc
    /\ UNCHANGED <<calls, call, result_images_dir, dir_exists, fs0, output0,
                   result_1_file, rowVars, textVars>>

\* Lines 138-142: result_2.
LoadSaveResult2 ==
    /\ pc = "result_2"
    /\ IF call.result_2_path # None
       THEN \E f \in FileStates("img_result_2") :
              /\ result_2_file' = f
              /\ loaded' = loaded \cup {<<"result_2_path", 0>>}
              /\ IF load_image(f) = None
                 THEN /\ Raise("ValueError")
                      /\ UNCHANGED <<fs, written>>
                 ELSE /\ fs' = save_image(fs, load_image(f), Result2Name)
                      /\ written' = Append(written, Result2Name)
                      /\ pc' = "rows"
                      /\ UNCHANGED exc
       ELSE /\ pc' = "rows"
            /\ UNCHANGED <<result_2_file, loaded, fs, written, exc>>
    /\ UNCHANGED <<calls, call, result_images_dir, dir_exists, fs0, output0,
                   result_1_file, rowVars, textVars>>

\* Lines 67-74: the two files are loaded, then checked in turn.
default_loader(po, pr) ==
    LET o == load_image(po)
        r == load_image(pr)
    IN  IF o = None \/ r = None
        THEN [raised |-> TRUE, o |-> None, r |-> None]
        ELSE [raised |-> FALSE, o |-> o, r |-> r]

\* Mutant of UsesDefaultLoader: image_loader is ignored.
UsesDefaultLoader_Always(c) == TRUE

\* Line 76: loader = image_loader or default_loader.
UsesDefaultLoader(c) == c.image_loader = None

\* Lines 79-92: one turn of the loop of build_error_rows_html.
LoopBody ==
    /\ pc = "rows"
    /\ i < call.n
    /\ \E po \in PairFileStates("file_origin"),
          pr \in PairFileStates("file_result"),
          custom \in LoaderOutcomes :
         LET res == IF UsesDefaultLoader(call) THEN default_loader(po, pr)
                    ELSE custom
             origin_save == OriginName(i)
             result_save == ResultName(i)
         IN  /\ pair_files' = <<po, pr>>
             /\ loaded' = IF UsesDefaultLoader(call)
                          THEN loaded \cup {<<"origin_path", i>>,
                                            <<"result_path", i>>}
                          ELSE loaded
             /\ loader_raised' = (loader_raised
                                  \/ (~UsesDefaultLoader(call) /\ res.raised))
             /\ IF res.raised
                THEN /\ Raise("ValueError")
                     /\ UNCHANGED <<fs, written, rows, i>>
                ELSE /\ fs' = save_image(save_image(fs, res.o, origin_save),
                                         res.r, result_save)
                     /\ written' = written \o <<origin_save, result_save>>
                     /\ rows' = Append(rows,
                                  RowHtml(ImagePrefix(result_images_dir), i))
                     /\ i' = i + 1
                     /\ UNCHANGED <<pc, exc>>
    /\ UNCHANGED <<calls, call, result_images_dir, dir_exists, fs0, output0,
                   result_1_file, result_2_file, textVars>>

\* Line 93: build_error_rows_html returns; the loop's pair goes out of scope.
BuildReturn ==
    /\ pc = "rows"
    /\ i = call.n
    /\ error_rows_html' = RowsResult(rows)
    /\ pair_files' = <<NoFile, NoFile>>
    /\ pc' = IF call.kind = "generate_report" THEN "read_template" ELSE "done"
    /\ UNCHANGED <<calls, call, result_images_dir, dir_exists, fs, fs0,
                   output0, output_file, browser_opens, exc, template_file,
                   template_text, html, result_1_file, result_2_file, i, rows,
                   loader_raised, loaded, written, html_written, template_read,
                   writes_at_read>>

\* Mutant of ReadTemplate: the output file is opened for writing before the
\* template is read, so a failed read leaves it empty.
ReadTemplate_TruncatesOutput ==
    /\ pc = "read_template"
    /\ \E t \in TemplateFiles :
         /\ template_file' = t
         /\ IF t.exists
            THEN /\ template_text' = t.text
                 /\ template_read' = TRUE
                 /\ writes_at_read' = Len(written)
                 /\ pc' = "replace"
                 /\ UNCHANGED <<exc, output_file>>
            ELSE /\ Raise("FileNotFoundError")
                 /\ output_file' = [exists |-> TRUE, text |-> <<>>]
                 /\ UNCHANGED <<template_text, template_read, writes_at_read>>
    /\ UNCHANGED <<calls, call, result_images_dir, dir_exists, fs, fs0,
                   output0, browser_opens, error_rows_html, html,
                   result_1_file, result_2_file, rowVars, loaded, written,
                   html_written>>

\* Line 148: template_path.read_text.
ReadTemplate ==
    /\ pc = "read_template"
    /\ \E t \in TemplateFiles :
         /\ template_file' = t
         /\ IF t.exists
            THEN /\ template_text' = t.text
                 /\ template_read' = TRUE
                 /\ writes_at_read' = Len(written)
                 /\ pc' = "replace"
                 /\ UNCHANGED exc
            ELSE /\ Raise("FileNotFoundError")
                 /\ UNCHANGED <<template_text, template_read, writes_at_read>>
    /\ UNCHANGED <<calls, call, result_images_dir, dir_exists, fs, fs0,
                   output0, output_file, browser_opens, error_rows_html, html,
                   result_1_file, result_2_file, rowVars, loaded, written,
                   html_written>>

\* Lines 149-155.
ReplacePlaceholders ==
    /\ pc = "replace"
    /\ html' = Substitute(template_text, call.title, call.evaluation,
                          call.message, error_rows_html)
    /\ pc' = "write_html"
    /\ UNCHANGED <<calls, call, result_images_dir, dir_exists, fs, fs0,
                   output0, output_file, browser_opens, exc, error_rows_html,
                   template_file, template_text, result_1_file, result_2_file,
                   rowVars, loaded, written, html_written, template_read,
                   writes_at_read>>

\* Line 157: output_html_path.write_text.
WriteHtml ==
    /\ pc = "write_html"
    /\ output_file' = [exists |-> TRUE, text |-> html]
    /\ html_written' = TRUE
    /\ pc' = "open_browser"
    /\ UNCHANGED <<calls, call, result_images_dir, dir_exists, fs, fs0,
                   output0, browser_opens, exc, error_rows_html, template_file,
                   template_text, html, result_1_file, result_2_file, rowVars,
                   loaded, written, template_read, writes_at_read>>

\* Mutant of OpenBrowser: open_browser is not looked at.
OpenBrowser_Always ==
    /\ pc = "open_browser"
    /\ browser_opens' = browser_opens + 1
    /\ pc' = "done"
    /\ UNCHANGED <<calls, call, result_images_dir, dir_exists, fs, fs0,
                   output0, output_file, exc, error_rows_html, template_file,
                   template_text, html, result_1_file, result_2_file, rowVars,
                   loaded, written, html_written, template_read,
                   writes_at_read>>

\* Lines 160-161.
OpenBrowser ==
    /\ pc = "open_browser"
    /\ browser_opens' = IF call.open_browser THEN browser_opens + 1
                        ELSE browser_opens
    /\ pc' = "done"
    /\ UNCHANGED <<calls, call, result_images_dir, dir_exists, fs, fs0,
                   output0, output_file, exc, error_rows_html, template_file,
                   template_text, html, result_1_file, result_2_file, rowVars,
                   loaded, written, html_written, template_read,
                   writes_at_read>>

\* The call is over, by return or by exception; files stay as they are.
Return ==
    /\ pc \in {"done", "raised"}
    /\ pc' = "idle"
    /\ call' = NoCall
    /\ FreshLocals
    /\ fs0' = fs
    /\ output0' = output_file
    /\ UNCHANGED <<calls, result_images_dir, dir_exists, fs, output_file>>

Next ==
    \/ PlaceResult2
    \/ CallGenerateReport
    \/ CallBuildErrorRows
    \/ ensure_result_images_dir
    \/ LoadSaveResult1
    \/ LoadSaveResult2
    \/ LoopBody
    \/ BuildReturn
    \/ ReadTemplate
    \/ ReplacePlaceholders
    \/ WriteHtml
    \/ OpenBrowser
    \/ Return

Spec == Init /\ [][Next]_vars

----------------------------------------------------------------------------
\* Helpers of the properties.

Range(s) == {s[k] : k \in 1..Len(s)}
IsImg(x) == x.tag = "img"
Imgs(s) == SelectSeq(s, IsImg)
IsTrOpen(x) == x.tag = "<tr>"
IsTrClose(x) == x.tag = "</tr>"
IsErrorFile(f) == f[1] \in {"error_origin", "error_result"}
CannotLoad(f) == ~f.exists \/ f.data = "garbage"
InGenerateReport == call.kind = "generate_report"
\* build_error_rows_html has returned in the running call.
RowsReturned == call.kind # "none" /\ error_rows_html # <<>>

\* Every placeholder of the text replaced at once, left to right, the inserted
\* strings not looked into.
RECURSIVE SimultaneousReplace(_, _, _, _, _)
SimultaneousReplace(s, title, evaluation, message, rowsHtml) ==
    IF Len(s) < 3 THEN s
    ELSE LET h == SubSeq(s, 1, 3)
             rest == SubSeq(s, 4, Len(s))
         IN  IF h = <<Lit("{{"), Lit("TITLE"), Lit("}}")>>
             THEN title \o SimultaneousReplace(rest, title, evaluation,
                                               message, rowsHtml)
             ELSE IF h = <<Lit("{{"), Lit("EVALUATION"), Lit("}}")>>
             THEN evaluation \o SimultaneousReplace(rest, title, evaluation,
                                                    message, rowsHtml)
             ELSE IF h = <<Lit("{{"), Lit("MESSAGE"), Lit("}}")>>
             THEN message \o SimultaneousReplace(rest, title, evaluation,
                                                 message, rowsHtml)
             ELSE IF h = <<Lit("{{"), Lit("ERROR_ROWS"), Lit("}}")>>
             THEN rowsHtml \o SimultaneousReplace(rest, title, evaluation,
                                                  message, rowsHtml)
             ELSE <<Head(s)>> \o SimultaneousReplace(Tail(s), title,
                                       evaluation, message, rowsHtml)

----------------------------------------------------------------------------
\* C1: when generate_report succeeds, the file written at output_html_path is
\* the template with every {{TITLE}}, {{EVALUATION}}, {{MESSAGE}} and
\* {{ERROR_ROWS}} replaced by title, evaluation, message and the rows, each
\* inserted verbatim (also when they contain placeholder tokens), the rest of
\* the template unchanged.
C1_VerbatimSubstitution ==
    (InGenerateReport /\ pc = "done") =>
        output_file.text = SimultaneousReplace(template_text, call.title,
                               call.evaluation, call.message, error_rows_html)

\* C2: for no pairs build_error_rows_html returns the single "none" row and
\* saves no image; for n >= 1 pairs it returns n <tr> rows joined by newlines,
\* in input order, row k holding an <img> of error_origin_k.png with alt
\* Error_Origin_k and then one of error_result_k.png with alt Error_Result_k.
C2_ErrorRows ==
    RowsReturned =>
        LET r == error_rows_html
            im == Imgs(r)
            n == call.n
        IN  IF n = 0
            THEN /\ r = <<Lit("<tr><td colspan=2>none</td></tr>")>>
                 /\ \A k \in 1..Len(written) : ~IsErrorFile(written[k])
            ELSE /\ Len(SelectSeq(r, IsTrOpen)) = n
                 /\ Len(SelectSeq(r, IsTrClose)) = n
                 /\ IsTrOpen(r[1])
                 /\ IsTrClose(r[Len(r)])
                 /\ \A p \in 1..(Len(r) - 1) :
                        IsTrClose(r[p]) => r[p + 1] = Lit("\n") /\ IsTrOpen(r[p + 2])
                 /\ \A p \in 1..Len(r) : r[p].tag # "<tr><td colspan=2>none</td></tr>"
                 /\ Len(im) = 2 * n
                 /\ \A k \in 0..(n - 1) :
                        /\ im[2 * k + 1].file = <<"error_origin", k>>
                        /\ im[2 * k + 1].alt = <<"Error_Origin", k>>
                        /\ im[2 * k + 2].file = <<"error_result", k>>
                        /\ im[2 * k + 2].alt = <<"Error_Result", k>>
C2_Witness ==
    /\ call.kind = "build_error_rows_html"
    /\ pc = "done"
    /\ call.n = 2
    /\ Len(Imgs(error_rows_html)) = 4

\* C3: generate_report raises ValueError when the file at result_1_path is
\* missing or undecodable, and when result_2_path is given and the file there
\* is missing or undecodable; load_image returns None in both cases.
C3_UnloadableResultRaises ==
    /\ load_image(MissingFile) = None
    /\ load_image(CorruptFile) = None
    /\ (InGenerateReport /\ result_1_file # NoFile /\ CannotLoad(result_1_file))
          => (pc = "raised" /\ exc = "ValueError")
    /\ (InGenerateReport /\ call.result_2_path # None
        /\ result_2_file # NoFile /\ CannotLoad(result_2_file))
          => (pc = "raised" /\ exc = "ValueError")
C3_Witness ==
    /\ InGenerateReport
    /\ pc = "raised"
    /\ exc = "ValueError"
    /\ result_1_file = ImageFile("img_result_1")
    /\ result_2_file = CorruptFile

\* C4: with result_2_path = None, generate_report neither loads a result_2
\* image nor writes result_2.png: the file is as it was when the call began,
\* present with the same content or still absent.
C4_Result2Untouched ==
    (InGenerateReport /\ call.result_2_path = None) =>
        /\ fs[<<"result", 2>>] = fs0[<<"result", 2>>]
        /\ <<"result", 2>> \notin Range(written)
        /\ <<"result_2_path", 0>> \notin loaded
C4_Witness ==
    /\ InGenerateReport
    /\ call.result_2_path = None
    /\ pc = "done"
    /\ fs0[<<"result", 2>>] = "histogram"
    /\ fs[<<"result", 2>>] = "histogram"

\* C5: with an image_loader, load_image is applied to no path of error_pairs
\* and the saved error images are the loader's, whether or not the files
\* named in error_pairs exist; the call fails in the loop only when the loader
\* raises, and then with the loader's ValueError.
C5_CustomLoaderOnly ==
    (call.kind # "none" /\ call.image_loader = "custom") =>
        /\ \A p \in loaded : p[1] \notin {"origin_path", "result_path"}
        /\ \A k \in 0..(i - 1) :
              /\ fs[<<"error_origin", k>>] = "mem_origin"
              /\ fs[<<"error_result", k>>] = "mem_result"
        /\ loader_raised => (pc = "raised" /\ exc = "ValueError")
        /\ (pc = "raised" /\ ~loader_raised) =>
              \/ CannotLoad(result_1_file)
              \/ (result_2_file # NoFile /\ CannotLoad(result_2_file))
              \/ exc = "FileNotFoundError"
        /\ (pc \in {"read_template", "replace", "write_html", "open_browser",
                    "done"}) => i = call.n
C5_Witness ==
    /\ InGenerateReport
    /\ call.image_loader = "custom"
    /\ call.n = 1
    /\ pc = "rows"
    /\ i = 1
    /\ pair_files = <<MissingFile, MissingFile>>
    /\ written = <<<<"result", 1>>, <<"error_origin", 0>>, <<"error_result", 0>>>>
    /\ fs[<<"error_origin", 0>>] = "mem_origin"

C7_BrowserAfterWrite ==
    InGenerateReport =>
        /\ pc = "done" => browser_opens = (IF call.open_browser THEN 1 ELSE 0)
        /\ browser_opens <= 1
        /\ ~call.open_browser => browser_opens = 0
        /\ browser_opens > 0 =>
              (html_written /\ output_file = [exists |-> TRUE, text |-> html])
C7_Witness ==
    /\ InGenerateReport
    /\ pc = "done"
    /\ call.open_browser
    /\ browser_opens = 1
    /\ html_written

\* C8: generate_report reads the template before it saves any image, so a
\* missing template fails the call with no image written.
C8_TemplateBeforeImages ==
    InGenerateReport =>
        /\ written # <<>> => template_read
        /\ template_read => writes_at_read = 0
        /\ (pc = "raised" /\ exc = "FileNotFoundError") => written = <<>>

\* C9: when generate_report fails, output_html_path is as it was when the call
\* began and the browser is not opened; the images saved before the failure
\* stay in result_images_dir.
C9_FailureLeavesOutput ==
    (InGenerateReport /\ pc = "raised") =>
        /\ output_file = output0
        /\ ~html_written
        /\ browser_opens = 0
        /\ \A f \in Range(written) : fs[f] # Absent
        /\ ~CannotLoad(result_1_file) => fs[<<"result", 1>>] = result_1_file.data
        /\ (result_2_file # NoFile /\ ~CannotLoad(result_2_file))
              => fs[<<"result", 2>>] = result_2_file.data
        /\ \A k \in 0..(i - 1) :
              /\ fs[<<"error_origin", k>>] # Absent
              /\ <<"error_origin", k>> \in Range(written)
              /\ fs[<<"error_result", k>>] # Absent
              /\ <<"error_result", k>> \in Range(written)
C9_Witness ==
    /\ InGenerateReport
    /\ pc = "raised"
    /\ loader_raised
    /\ i = 1
    /\ output0.exists
    /\ output_file = output0
    /\ fs[<<"result", 1>>] = "img_result_1"
    /\ fs[<<"error_origin", 0>>] = "mem_origin"

\* C10: when build_error_rows_html returns for n pairs, the files named in
\* its rows were saved in that call, origin_k before result_k and pair k
\* before pair k+1; it writes no other file and leaves the error files of
\* index >= n as they were.
C10_RowsFilesSaved ==
    RowsReturned =>
        LET e == SelectSeq(written, IsErrorFile)
            n == call.n
        IN  /\ Len(e) = 2 * n
            /\ \A k \in 0..(n - 1) :
                  /\ e[2 * k + 1] = <<"error_origin", k>>
                  /\ e[2 * k + 2] = <<"error_result", k>>
            /\ \A x \in Range(error_rows_html) :
                  IsImg(x) => (x.file \in Range(e) /\ fs[x.file] # Absent)
            /\ call.kind = "build_error_rows_html" => written = e
            /\ \A f \in DirFiles : f \notin Range(written) => fs[f] = fs0[f]
            /\ \A f \in DirFiles : (IsErrorFile(f) /\ f[2] >= n) => fs[f] = fs0[f]
C10_Witness ==
    /\ call.kind = "build_error_rows_html"
    /\ pc = "done"
    /\ call.n = 1
    /\ written = <<<<"error_origin", 0>>, <<"error_result", 0>>>>
    /\ fs0[<<"error_origin", 1>>] # Absent
    /\ fs[<<"error_result", 1>>] = fs0[<<"error_result", 1>>]

====
